---- MODULE Spec2Model ----
(***************************************************************************)
(* Model of the poseidon-circuit main gate (src/src/main_gate.rs), of the  *)
(* test circuit that drives it (src/src/test_circuit.rs) and of the        *)
(* proving service (src/src/bin/snarkify.rs).                              *)
(*                                                                         *)
(* The constraint table is a pair of maps from (column, row) to a field    *)
(* element; the field is Z/P.  The backend (halo2) is an external          *)
(* collaborator: each of its calls either performs its write or returns an *)
(* error, chosen nondeterministically.                                     *)
(***************************************************************************)
EXTENDS Integers, Sequences, FiniteSets, TLC

\* ------------------------------------------------------------ bounds
\* modulus of the model's field
P == 3
\* largest gate width T that configure is tried with
MaxT == 2
\* rows of the region; the cursor stops at MaxOffset
MaxOffset == 2
\* apply calls made on one RegionCtx
MaxCalls == 2
\* largest start offset given to RegionCtx::new
MaxStart == 1

F == 0 .. (P - 1)
Rows == 0 .. MaxOffset
\* the columns the widest gate takes
AdvIds == 1 .. (MaxT + 2)
FixIds == 1 .. (2 * MaxT + 4)
\* a cell that was never assigned
UNSET == -1

VARIABLES
    pc,         \* "init" | "configured" | "ctx" | "panicked" | "synthesized" | "tampered"
    width,      \* the const generic T of MainGate<F, T>
    config,     \* MainGateConfig<T>
    adv_cols,   \* what is left of the advice column supply
    fix_cols,   \* what is left of the fixed column supply
    meta,       \* ConstraintSystem: equality-enabled columns, registered gates
    supplied,   \* lengths of the advice and the fixed supply given to configure
    advice,     \* advice cells, [column, row] -> value
    fixed,      \* fixed cells, [column, row] -> value
    instance,   \* row 0 of the instance column
    copies,     \* recorded equality constraints, pairs of cells
    offset,     \* RegionCtx::offset
    start,      \* the offset the RegionCtx was created with
    advances,   \* number of next-advancing calls made so far
    calls,      \* number of apply calls made so far
    hit,        \* rows targeted by an apply call so far
    okRows,     \* rows targeted by a successful apply call so far
    handles,    \* AssignedCells returned by apply so far
    last,       \* the last apply call: arguments, entry state and outcome
    synth,      \* TestCircuit::synthesize: what its steps returned
    p_stage,    \* PoseidonProver::prove: the stage reached
    p_input,    \* PoseidonProver::prove: the Input
    p_proof,    \* PoseidonProver::prove: the proof bytes
    p_verified, \* PoseidonProver::prove: verify_proof returned Ok
    p_failed,   \* PoseidonProver::prove: the stage that failed and the error it gave
    p_result    \* PoseidonProver::prove: the value returned

gateVars == <<pc, width, config, adv_cols, fix_cols, meta, supplied, advice, fixed, instance,
              copies, offset, start, advances, calls, hit, okRows, handles, last, synth>>
proveVars == <<p_stage, p_input, p_proof, p_verified, p_failed, p_result>>
vars == <<gateVars, proveVars>>

\* ------------------------------------------------------------ field
Mod(x) == x % P
Neg(x) == (P - x) % P
Pow5(v) == LET v2 == Mod(v * v) IN Mod(Mod(v2 * v2) * v)

\* ------------------------------------------------------------ values
NoneF == [some |-> FALSE, v |-> 0]
SomeF(x) == [some |-> TRUE, v |-> x]
NoneV == [some |-> FALSE, v |-> <<>>]
SomeV(s) == [some |-> TRUE, v |-> s]

NoCell == <<0, 0>>
NoAssigned == [cell |-> NoCell, value |-> 0]
Unassigned(v) == [tag |-> "Unassigned", value |-> v, cell |-> NoCell]
Assigned(c) == [tag |-> "Assigned", value |-> c.value, cell |-> c.cell]
Zero == [tag |-> "Zero", value |-> 0, cell |-> NoCell]

\* ------------------------------------------------------------ configure
NoConfig ==
    [state |-> <<>>, input |-> 0, out |-> 0, q_m |-> 0, q_1 |-> <<>>, q_5 |-> <<>>,
     q_i |-> 0, q_o |-> 0, rc |-> 0]
EmptyMeta == [equality |-> {}, gates |-> 0]

Drop(s, n) == SubSeq(s, n + 1, Len(s))
Take(s, n) == SubSeq(s, 1, n)
Range(s) == {s[i] : i \in DOMAIN s}

\* MainGate::configure after its assertion, lines 141-191: T+2 advice and 2T+4
\* fixed columns taken in order (next().unwrap() panics on an exhausted
\* supply), equality enabled on the advice columns, one gate registered
ConfigureBody(T, m, adv, fix) ==
    IF Len(adv) < T + 2
    THEN [status |-> "panic", config |-> NoConfig, adv |-> <<>>, fix |-> fix, meta |-> m]
    ELSE IF Len(fix) < 2 * T + 4
    THEN [status |-> "panic", config |-> NoConfig, adv |-> Drop(adv, T + 2), fix |-> <<>>,
          meta |-> m]
    ELSE LET cfg == [state |-> Take(adv, T),
                     input |-> adv[T + 1],
                     out   |-> adv[T + 2],
                     q_1   |-> Take(fix, T),
                     q_5   |-> SubSeq(fix, T + 1, 2 * T),
                     q_m   |-> fix[2 * T + 1],
                     q_i   |-> fix[2 * T + 2],
                     q_o   |-> fix[2 * T + 3],
                     rc    |-> fix[2 * T + 4]]
         IN [status |-> "ok", config |-> cfg,
             adv |-> Drop(adv, T + 2), fix |-> Drop(fix, 2 * T + 4),
             meta |-> [equality |-> m.equality
                                    \cup {<<"advice", c>> : c \in Range(cfg.state)}
                                    \cup {<<"advice", cfg.input>>, <<"advice", cfg.out>>},
                       gates |-> m.gates + 1]]

ConfigureNoAssert(T, m, adv, fix) == ConfigureBody(T, m, adv, fix)

ConfigureSwapped(T, m, adv, fix) ==
    LET r == ConfigureBody(T, m, adv, fix) IN
    IF T < 2 \/ r.status = "panic"
    THEN [status |-> "panic", config |-> NoConfig, adv |-> r.adv, fix |-> r.fix, meta |-> m]
    ELSE [r EXCEPT !.config.q_m = r.config.q_5[1], !.config.q_5[1] = r.config.q_m]

\* MainGate::configure, lines 135-192: assert!(T >= 2), then the body
Configure(T, m, adv, fix) ==
    IF T < 2
    THEN [status |-> "panic", config |-> NoConfig, adv |-> adv, fix |-> fix, meta |-> m]
    ELSE ConfigureBody(T, m, adv, fix)

\* ------------------------------------------------------------ the gate identity
\* the backend reads a cell that was never assigned as the field's zero
CellValue(x) == IF x = UNSET THEN 0 ELSE x

RECURSIVE Sum(_, _)
Sum(f, n) == IF n = 0 THEN 0 ELSE f[n] + Sum(f, n - 1)

\* the polynomial registered by create_gate, evaluated on row r
GatePoly(cfg, fx, ad, r) ==
    LET T == Len(cfg.state)
        s(i) == CellValue(ad[cfg.state[i], r])
        init_term == CellValue(fx[cfg.q_m, r]) * s(1) * s(2)
                     + CellValue(fx[cfg.q_i, r]) * CellValue(ad[cfg.input, r])
                     + CellValue(fx[cfg.rc, r])
                     + CellValue(fx[cfg.q_o, r]) * CellValue(ad[cfg.out, r])
        item == [i \in 1 .. T |->
                    CellValue(fx[cfg.q_1[i], r]) * s(i)
                    + CellValue(fx[cfg.q_5[i], r]) * Pow5(s(i))]
    IN Mod(init_term + Sum(item, T))

\* the backend's verdict on the table: every row satisfies the identity and
\* every recorded equality holds
Accepts(cfg, fx, ad, inst, cps) ==
    /\ \A r \in Rows : GatePoly(cfg, fx, ad, r) = 0
    /\ \A c \in cps :
         LET val(cell) == IF cell[1] = "instance" THEN inst
                          ELSE CellValue(ad[cell[2], cell[3]])
         IN val(c[1]) = val(c[2])

AdvCell(col, row) == <<"advice", col, row>>
InstanceCell == <<"instance", 0, 0>>

\* ------------------------------------------------------------ apply
FixedOp(label, col, val) ==
    [kind |-> "fixed", label |-> label, col |-> col, val |-> val, cell |-> NoCell]
AdviceOp(label, col, val) ==
    [kind |-> "advice", label |-> label, col |-> col, val |-> val, cell |-> NoCell]
EqualOp(label, col, cell) ==
    [kind |-> "equal", label |-> label, col |-> col, val |-> 0, cell |-> cell]
PanicOp(label, kind) ==
    [kind |-> kind, label |-> label, col |-> 0, val |-> 0, cell |-> NoCell]
NextOp == [kind |-> "next", label |-> "next", col |-> 0, val |-> 0, cell |-> NoCell]

RECURSIVE Flatten(_)
Flatten(ss) == IF ss = <<>> THEN <<>> ELSE Head(ss) \o Flatten(Tail(ss))

\* lines 204-208: the provided q_1 values, config.q_1[i] indexed as the loop goes
Q1Ops(cfg, q_1) ==
    IF ~q_1.some THEN <<>>
    ELSE [i \in 1 .. Len(q_1.v) |->
            IF i <= Len(cfg.q_1) THEN FixedOp("q_1", cfg.q_1[i], q_1.v[i])
            ELSE PanicOp("q_1", "index")]

QmOpsDefaultOne(cfg, q_m) ==
    <<FixedOp("q_m", cfg.q_m, IF q_m.some THEN q_m.v ELSE 1 % P)>>

\* lines 209-211
QmOps(cfg, q_m) == IF q_m.some THEN <<FixedOp("q_m", cfg.q_m, q_m.v)>> ELSE <<>>

StateEntryZeroWritten(cfg, i, val) ==
    IF i > Len(cfg.state) THEN <<PanicOp("state", "index")>>
    ELSE IF val.tag = "Assigned"
    THEN <<AdviceOp("state", cfg.state[i], val.value),
           EqualOp("state", cfg.state[i], val.cell)>>
    ELSE <<AdviceOp("state", cfg.state[i], val.value)>>

StateEntryNoEqual(cfg, i, val) ==
    IF val.tag = "Zero" THEN <<>>
    ELSE IF i > Len(cfg.state) THEN <<PanicOp("state", "index")>>
    ELSE <<AdviceOp("state", cfg.state[i], val.value)>>

\* lines 214-227: one state entry
StateEntryOps(cfg, i, val) ==
    IF val.tag = "Zero" THEN <<>>
    ELSE IF i > Len(cfg.state) THEN <<PanicOp("state", "index")>>
    ELSE IF val.tag = "Unassigned" THEN <<AdviceOp("state", cfg.state[i], val.value)>>
    ELSE <<AdviceOp("state", cfg.state[i], val.value),
           EqualOp("state", cfg.state[i], val.cell)>>

\* lines 212-229
StateOps(cfg, state) ==
    IF ~state.some THEN <<>>
    ELSE Flatten([i \in 1 .. Len(state.v) |-> StateEntryOps(cfg, i, state.v[i])])

\* lines 231-233
RcOps(cfg, rc) == IF rc.some THEN <<FixedOp("rc", cfg.rc, rc.v)>> ELSE <<>>

QoOpsIntoQi(cfg, q_o) == <<FixedOp("q_o", cfg.q_i, q_o)>>

\* line 235
QoOps(cfg, q_o) == <<FixedOp("q_o", cfg.q_o, q_o)>>

OutOpsZeroAsValue(cfg, out) ==
    IF out.tag = "Assigned"
    THEN <<AdviceOp("out", cfg.out, out.value), EqualOp("out", cfg.out, out.cell)>>
    ELSE <<AdviceOp("out", cfg.out, out.value)>>

\* lines 237-247
OutOps(cfg, out) ==
    IF out.tag = "Unassigned" THEN <<AdviceOp("out", cfg.out, out.value)>>
    ELSE IF out.tag = "Assigned"
    THEN <<AdviceOp("out", cfg.out, out.value), EqualOp("out", cfg.out, out.cell)>>
    ELSE <<PanicOp("out", "unimplemented")>>

ApplyOpsNoNext(cfg, args) ==
    Q1Ops(cfg, args.q_1) \o QmOps(cfg, args.q_m) \o StateOps(cfg, args.state)
    \o RcOps(cfg, args.rc) \o QoOps(cfg, args.q_o) \o OutOps(cfg, args.out)

ApplyOpsQoFirst(cfg, args) ==
    QoOps(cfg, args.q_o) \o Q1Ops(cfg, args.q_1) \o QmOps(cfg, args.q_m)
    \o StateOps(cfg, args.state) \o RcOps(cfg, args.rc) \o OutOps(cfg, args.out)
    \o <<NextOp>>

\* lines 204-248: the backend calls of one apply call, in program order
ApplyOps(cfg, args) ==
    Q1Ops(cfg, args.q_1) \o QmOps(cfg, args.q_m) \o StateOps(cfg, args.state)
    \o RcOps(cfg, args.rc) \o QoOps(cfg, args.q_o) \o OutOps(cfg, args.out)
    \o <<NextOp>>

\* RegionCtx::assign_fixed, assign_advice, constrain_equal and next: each acts
\* on the row at the current offset
Step(op, st) ==
    LET st1 == [st EXCEPT !.trace = Append(st.trace, op)] IN
    IF op.kind = "fixed" THEN [st1 EXCEPT !.fixed[op.col, st.offset] = op.val]
    ELSE IF op.kind = "advice"
    THEN [st1 EXCEPT !.advice[op.col, st.offset] = op.val,
                     !.cell = IF op.label = "out"
                              THEN [cell |-> <<op.col, st.offset>>, value |-> op.val]
                              ELSE st.cell]
    ELSE IF op.kind = "equal"
    THEN [st1 EXCEPT !.copies = st.copies \cup
                        {<<AdvCell(op.col, st.offset), AdvCell(op.cell[1], op.cell[2])>>}]
    ELSE [st1 EXCEPT !.offset = st.offset + 1]

RECURSIVE ExecSwallow(_, _, _, _)
ExecSwallow(ops, i, fault, st) ==
    IF i > Len(ops) THEN [st EXCEPT !.result = "Ok"]
    ELSE IF ops[i].kind \in {"index", "unimplemented"}
    THEN [st EXCEPT !.result = "Panic", !.panic = ops[i].kind]
    ELSE IF i = fault THEN ExecSwallow(ops, i + 1, fault, st)
    ELSE ExecSwallow(ops, i + 1, fault, Step(ops[i], st))

\* runs the calls in order; `?` returns at the first backend error (the call
\* numbered fault, 0 for none), a panic unwinds
RECURSIVE Exec(_, _, _, _)
Exec(ops, i, fault, st) ==
    IF i > Len(ops) THEN [st EXCEPT !.result = "Ok"]
    ELSE IF ops[i].kind \in {"index", "unimplemented"}
    THEN [st EXCEPT !.result = "Panic", !.panic = ops[i].kind]
    ELSE IF i = fault THEN [st EXCEPT !.result = "Err", !.failed = ops[i]]
    ELSE Exec(ops, i + 1, fault, Step(ops[i], st))

\* MainGate::apply on the table (ad, fx, cps) with the cursor at off
Apply(cfg, args, fault, ad, fx, cps, off) ==
    Exec(ApplyOps(cfg, args), 1, fault,
         [advice |-> ad, fixed |-> fx, copies |-> cps, offset |-> off,
          cell |-> NoAssigned, result |-> "Running", panic |-> "", failed |-> NextOp,
          trace |-> <<>>])

\* ------------------------------------------------------------ synthesize
SynthesizeIgnoreInstanceErr(sq, cell, ci, cps) ==
    IF sq = "Err" THEN [result |-> "Err", copies |-> cps]
    ELSE [result |-> "Ok", copies |-> cps]

\* TestCircuit::synthesize, lines 59-67: the squeeze result `?`, then
\* constrain_instance(output.cell(), config.instance, 0) `?`, then Ok
Synthesize(sq, cell, ci, cps) ==
    IF sq = "Err" THEN [result |-> "Err", copies |-> cps]
    ELSE IF ci = "Err" THEN [result |-> "Err", copies |-> cps]
    ELSE [result |-> "Ok",
          copies |-> cps \cup {<<AdvCell(cell.cell[1], cell.cell[2]), InstanceCell>>}]

\* ------------------------------------------------------------ inputs
\* the selector value 1 and -1
One == 1 % P
MinusOne == Neg(1)

Q1Choices(T) ==
    {NoneV, SomeV(<<One>>), SomeV([i \in 1 .. T |-> One]), SomeV([i \in 1 .. (T + 1) |-> One])}
ScalarChoices == {NoneF, SomeF(One)}
StateChoices(T, hs) ==
    {NoneV, SomeV([i \in 1 .. T |-> Unassigned(i % P)])}
    \cup {SomeV([i \in 1 .. T |-> IF i = 1 THEN Assigned(h) ELSE Zero]) : h \in hs}
OutChoices(hs) ==
    {Unassigned(One), Unassigned(2 % P), Zero} \cup {Assigned(h) : h \in hs}

ArgSet(T, hs) ==
    [q_1 : Q1Choices(T), q_m : ScalarChoices, state : StateChoices(T, hs),
     rc : ScalarChoices, q_o : {MinusOne}, out : OutChoices(hs)]

FirstOf(ops, k) ==
    LET I == {i \in 1 .. Len(ops) : ops[i].kind = k}
    IN IF I = {} THEN 0 ELSE CHOOSE i \in I : \A j \in I : i <= j

\* the backend call that fails: none, or the first assign_fixed, the first
\* assign_advice or the first constrain_equal of the call
Faults(ops) == {0} \cup {FirstOf(ops, k) : k \in {"fixed", "advice", "equal"}}

NoArgs ==
    [q_1 |-> NoneV, q_m |-> NoneF, state |-> NoneV, rc |-> NoneF, q_o |-> 0, out |-> Zero]
NoCall ==
    [called |-> FALSE, args |-> NoArgs, offset |-> 0, result |-> "", panic |-> "",
     failed |-> NextOp, ops |-> <<>>, trace |-> <<>>, cell |-> NoAssigned,
     fresh |-> TRUE, again |-> FALSE, okAgain |-> FALSE]
NoSynth == [done |-> FALSE, squeeze |-> "", constrain |-> "", output |-> NoAssigned,
            result |-> ""]
NoInput == [private_input |-> <<>>, public_input |-> <<>>]
NoResult == [ok |-> FALSE, variant |-> "", content |-> <<>>]
NoFailure == [stage |-> "", error |-> <<>>]

\* ------------------------------------------------------------ state machine
InitGate ==
    /\ pc = "init"
    /\ width = 0
    /\ config = NoConfig
    /\ adv_cols = <<>>
    /\ fix_cols = <<>>
    /\ meta = EmptyMeta
    /\ supplied = <<0, 0>>
    /\ advice = [c \in AdvIds, r \in Rows |-> UNSET]
    /\ fixed = [c \in FixIds, r \in Rows |-> UNSET]
    /\ instance = 0
    /\ copies = {}
    /\ offset = 0
    /\ start = 0
    /\ advances = 0
    /\ calls = 0
    /\ hit = {}
    /\ okRows = {}
    /\ handles = {}
    /\ last = NoCall
    /\ synth = NoSynth

ProveIdle ==
    /\ p_stage = "idle"
    /\ p_input = NoInput
    /\ p_proof = <<>>
    /\ p_verified = FALSE
    /\ p_failed = NoFailure
    /\ p_result = NoResult

Init == InitGate /\ ProveIdle

\* TestCircuit::configure: the instance column with equality, the two column
\* supplies, then MainGate::configure
DoConfigure ==
    /\ pc = "init"
    /\ \E T \in 0 .. MaxT, extra \in {<<-1, 0>>, <<0, -1>>, <<0, 0>>} :
         LET adv == [i \in 1 .. (T + 2 + extra[1]) |-> i]
             fix == [i \in 1 .. (2 * T + 4 + extra[2]) |-> i]
             m == [meta EXCEPT !.equality = meta.equality \cup {<<"instance", 0>>}]
             r == Configure(T, m, adv, fix)
         IN /\ width' = T
            /\ config' = r.config
            /\ adv_cols' = r.adv
            /\ fix_cols' = r.fix
            /\ meta' = r.meta
            /\ supplied' = <<Len(adv), Len(fix)>>
            /\ pc' = IF r.status = "ok" THEN "configured" ELSE "panicked"
    /\ UNCHANGED <<advice, fixed, instance, copies, offset, start, advances, calls, hit,
                   okRows, handles, last, synth, proveVars>>

\* RegionCtx::new(region, offset)
NewCtx ==
    /\ pc = "configured"
    /\ \E off \in 0 .. MaxStart :
         /\ offset' = off
         /\ start' = off
    /\ pc' = "ctx"
    /\ UNCHANGED <<width, config, adv_cols, fix_cols, meta, supplied, advice, fixed, instance, copies,
                   advances, calls, hit, okRows, handles, last, synth, proveVars>>

RowUnset(ad, fx, r) ==
    /\ \A c \in AdvIds : ad[c, r] = UNSET
    /\ \A c \in FixIds : fx[c, r] = UNSET

\* one MainGate::apply call on the RegionCtx
ApplyCall ==
    /\ pc = "ctx"
    /\ calls < MaxCalls
    /\ offset < MaxOffset
    /\ \E args \in ArgSet(width, handles) :
        \E fault \in Faults(ApplyOps(config, args)) :
         LET r == Apply(config, args, fault, advice, fixed, copies, offset)
             ok == r.result = "Ok"
         IN /\ advice' = r.advice
            /\ fixed' = r.fixed
            /\ copies' = r.copies
            /\ offset' = r.offset
            /\ pc' = IF r.result = "Panic" THEN "panicked" ELSE "ctx"
            /\ handles' = IF ok THEN handles \cup {r.cell} ELSE handles
            /\ advances' = IF ok THEN advances + 1 ELSE advances
            /\ okRows' = IF ok THEN okRows \cup {offset} ELSE okRows
            /\ last' = [called |-> TRUE, args |-> args, offset |-> offset,
                        result |-> r.result, panic |-> r.panic, failed |-> r.failed,
                        ops |-> ApplyOps(config, args), trace |-> r.trace,
                        cell |-> IF ok THEN r.cell ELSE NoAssigned,
                        fresh |-> RowUnset(advice, fixed, offset),
                        again |-> offset \in hit, okAgain |-> offset \in okRows]
    /\ calls' = calls + 1
    /\ hit' = hit \cup {offset}
    /\ UNCHANGED <<width, config, adv_cols, fix_cols, meta, supplied, instance, start, synth,
                   proveVars>>

\* RegionCtx::next called by the circuit itself
NextCall ==
    /\ pc = "ctx"
    /\ offset < MaxOffset
    /\ offset' = offset + 1
    /\ advances' = advances + 1
    /\ UNCHANGED <<pc, width, config, adv_cols, fix_cols, meta, supplied, advice, fixed, instance,
                   copies, start, calls, hit, okRows, handles, last, synth, proveVars>>

\* the end of TestCircuit::synthesize: the squeeze of a region started at
\* offset 0 has returned what its last apply call returned (an error, or the
\* output cell), and the output is bound to the instance column
DoSynthesize ==
    /\ pc = "ctx"
    /\ start = 0
    /\ last.called
    /\ \E sq \in {"Ok", "Err"}, ci \in {"Ok", "Err"}, inst \in {0, One, 2 % P} :
         /\ sq = "Ok" <=> last.result = "Ok"
         /\ (sq = "Err" \/ ci = "Err") <=> inst = 0
         /\ sq = "Err" => ci = "Ok"
         /\ LET out == last.cell
                r == Synthesize(sq, out, ci, copies)
            IN /\ copies' = r.copies
               /\ synth' = [done |-> TRUE, squeeze |-> sq, constrain |-> ci,
                            output |-> out, result |-> r.result]
         /\ instance' = inst
    /\ pc' = "synthesized"
    /\ UNCHANGED <<width, config, adv_cols, fix_cols, meta, supplied, advice, fixed, offset, start,
                   advances, calls, hit, okRows, handles, last, proveVars>>

\* the cells of the equalities the last apply call recorded
CopyCells ==
    UNION {{AdvCell(op.col, last.offset), AdvCell(op.cell[1], op.cell[2])} :
             op \in {o \in Range(last.trace) : o.kind = "equal"}}

\* a witness changed after synthesis: one advice cell of a recorded equality
\* gets another value
Tamper ==
    /\ pc = "ctx"
    /\ \E c \in CopyCells, v \in F :
         /\ v # advice[c[2], c[3]]
         /\ advice' = [advice EXCEPT ![c[2], c[3]] = v]
    /\ pc' = "tampered"
    /\ UNCHANGED <<width, config, adv_cols, fix_cols, meta, supplied, fixed, instance, copies, offset,
                   start, advances, calls, hit, okRows, handles, last, synth, proveVars>>

\* ------------------------------------------------------------ the proving service
Digits == <<"0", "1", "2", "3", "4", "5", "6", "7", "8", "9">>
DigitOf(c) ==
    LET I == {i \in 1 .. Len(Digits) : Digits[i] = c}
    IN IF I = {} THEN UNSET ELSE (CHOOSE i \in I : TRUE) - 1

RECURSIVE FromDigits(_, _, _)
FromDigits(s, i, res) ==
    IF i > Len(s) THEN [some |-> TRUE, v |-> res]
    ELSE IF DigitOf(s[i]) = UNSET THEN NoneF
    ELSE IF i = 1 /\ DigitOf(s[i]) = 0 THEN NoneF
    ELSE FromDigits(s, i + 1, Mod(res * Len(Digits) + DigitOf(s[i])))

\* Input::public_input, lines 51-55: Fr::from_str_vartime on the decimal string
PublicInput(s) ==
    IF s = <<>> THEN NoneF
    ELSE IF s = <<"0">> THEN SomeF(0)
    ELSE FromDigits(s, 1, 0)

\* Input::private_input, lines 42-48
PrivateInput(xs) == [i \in 1 .. Len(xs) |-> Mod(xs[i])]

\* format!("{err:?}") of a plonk::Error: the name of its variant
DebugFmt(err) == err.variant

while_keygen_vk(err) == [ok |-> FALSE, variant |-> "WhileKeygenVk", content |-> DebugFmt(err)]
while_keygen_pk(err) == [ok |-> FALSE, variant |-> "WhileKeygenPk", content |-> DebugFmt(err)]
while_prove(err) == [ok |-> FALSE, variant |-> "WhileProve", content |-> DebugFmt(err)]
\* lines 168-172: builds Self::WhileProve
while_verify(err) == [ok |-> FALSE, variant |-> "WhileProve", content |-> DebugFmt(err)]
PubInputOutOfField(s) == [ok |-> FALSE, variant |-> "PubInputOutOfField", content |-> s]

B64Alphabet ==
    <<"A", "B", "C", "D", "E", "F", "G", "H", "I", "J", "K", "L", "M", "N", "O", "P",
      "Q", "R", "S", "T", "U", "V", "W", "X", "Y", "Z", "a", "b", "c", "d", "e", "f",
      "g", "h", "i", "j", "k", "l", "m", "n", "o", "p", "q", "r", "s", "t", "u", "v",
      "w", "x", "y", "z", "0", "1", "2", "3", "4", "5", "6", "7", "8", "9", "+", "/">>

\* BS64.encode on a proof of at most one byte
Base64(bytes) ==
    IF bytes = <<>> THEN <<>>
    ELSE <<B64Alphabet[(bytes[1] \div 4) + 1], B64Alphabet[((bytes[1] % 4) * 16) + 1],
           "=", "=">>

PlonkErrors == {[variant |-> "Synthesis"], [variant |-> "ConstraintSystemFailure"],
                [variant |-> "Opening"]}
Outcomes == {[ok |-> TRUE, error |-> [variant |-> ""]]}
            \cup {[ok |-> FALSE, error |-> e] : e \in PlonkErrors}

Chars == {"0", "1", "7", "x"}
Strings == {<<>>} \cup {<<a>> : a \in Chars} \cup {<<a, b>> : a, b \in Chars}
Inputs == [private_input : {<<>>, <<1, 2>>}, public_input : Strings]
Proofs == {<<0>>, <<255>>}

InitProve ==
    /\ InitGate
    /\ p_stage = "start"
    /\ p_input \in Inputs
    /\ p_proof = <<>>
    /\ p_verified = FALSE
    /\ p_failed = NoFailure
    /\ p_result = NoResult

Fail(stage, err, result) ==
    /\ p_stage' = "returned"
    /\ p_failed' = [stage |-> stage, error |-> err]
    /\ p_result' = result

\* line 91: keygen_vk(..).map_err(Error::while_keygen_vk)?
KeygenVk ==
    /\ p_stage = "start"
    /\ \E o \in Outcomes :
         IF o.ok THEN p_stage' = "vk" /\ UNCHANGED <<p_failed, p_result>>
         ELSE Fail("keygen_vk", DebugFmt(o.error), while_keygen_vk(o.error))
    /\ UNCHANGED <<gateVars, p_input, p_proof, p_verified>>

\* line 92: keygen_pk(..).map_err(Error::while_keygen_pk)?
KeygenPk ==
    /\ p_stage = "vk"
    /\ \E o \in Outcomes :
         IF o.ok THEN p_stage' = "pk" /\ UNCHANGED <<p_failed, p_result>>
         ELSE Fail("keygen_pk", DebugFmt(o.error), while_keygen_pk(o.error))
    /\ UNCHANGED <<gateVars, p_input, p_proof, p_verified>>

\* line 94: input.public_input()?
ParsePublicInput ==
    /\ p_stage = "pk"
    /\ IF PublicInput(p_input.public_input).some
       THEN p_stage' = "parsed" /\ UNCHANGED <<p_failed, p_result>>
       ELSE Fail("public_input", p_input.public_input,
                 PubInputOutOfField(p_input.public_input))
    /\ UNCHANGED <<gateVars, p_input, p_proof, p_verified>>

\* lines 98-110: create_proof(..).map_err(Error::while_prove)?, then finalize
CreateProof ==
    /\ p_stage = "parsed"
    /\ \E o \in Outcomes, bytes \in Proofs :
         IF o.ok
         THEN p_stage' = "proved" /\ p_proof' = bytes /\ UNCHANGED <<p_failed, p_result>>
         ELSE /\ bytes = <<0>>
              /\ Fail("create_proof", DebugFmt(o.error), while_prove(o.error))
              /\ UNCHANGED p_proof
    /\ UNCHANGED <<gateVars, p_input, p_verified>>

\* lines 113-130: verify_proof(..).map_err(Error::while_verify)?, then
\* Ok(BS64.encode(proof))
VerifyProof ==
    /\ p_stage = "proved"
    /\ \E o \in Outcomes :
         IF o.ok
         THEN /\ p_stage' = "returned"
              /\ p_verified' = TRUE
              /\ p_result' = [ok |-> TRUE, variant |-> "Ok", content |-> Base64(p_proof)]
              /\ UNCHANGED p_failed
         ELSE /\ Fail("verify_proof", DebugFmt(o.error), while_verify(o.error))
              /\ UNCHANGED p_verified
    /\ UNCHANGED <<gateVars, p_input, p_proof>>

NextProve == KeygenVk \/ KeygenPk \/ ParsePublicInput \/ CreateProof \/ VerifyProof

SpecProve == InitProve /\ [][NextProve]_vars

Next == DoConfigure \/ NewCtx \/ ApplyCall \/ NextCall \/ DoSynthesize \/ Tamper

Spec == Init /\ [][Next]_vars

\* ------------------------------------------------------------ claims
Table == Accepts(config, fixed, advice, instance, copies)
LastOk == last.called /\ last.result = "Ok"
Untampered == pc # "tampered"
Adv(cell) == CellValue(advice[cell[1], cell[2]])

\* the identity of the gate on the values an apply call was given: an omitted
\* selector, an absent state entry and a Zero count as the field's zero
ArgPoly(T, a) ==
    LET sv(i) == IF a.state.some /\ i <= Len(a.state.v) THEN a.state.v[i].value ELSE 0
        q1(i) == IF a.q_1.some /\ i <= Len(a.q_1.v) THEN a.q_1.v[i] ELSE 0
        qm == IF a.q_m.some THEN a.q_m.v ELSE 0
        rcv == IF a.rc.some THEN a.rc.v ELSE 0
    IN Mod(qm * sv(1) * sv(2) + Sum([i \in 1 .. T |-> q1(i) * sv(i)], T)
           + a.q_o * a.out.value + rcv)

\* C1 as stated: every row filled by a successful apply call satisfies the
\* registered identity, whatever selector, state and output values were given.
C1_IdentityHoldsOnEveryAppliedRow ==
    (LastOk /\ Untampered) => GatePoly(config, fixed, advice, last.offset) = 0

\* C1 amended: apply checks nothing; on a row not written before the call the
\* registered identity evaluates to the identity of the values the caller gave,
\* so the row satisfies it exactly when those values do.
C1_RowPolyIsArgPoly ==
    (LastOk /\ Untampered /\ last.fresh) =>
        GatePoly(config, fixed, advice, last.offset) = ArgPoly(width, last.args)

C1_Witness ==
    /\ LastOk /\ Untampered /\ last.fresh
    /\ last.args.q_m.some /\ last.args.state.some /\ last.args.q_1.some
    /\ ArgPoly(width, last.args) # 0
    /\ GatePoly(config, fixed, advice, last.offset) # 0

\* the Assigned values of an apply call with the cell each is copied into
AssignedEntries(cfg, a, row) ==
    {<<AdvCell(cfg.state[i], row), a.state.v[i]>> :
        i \in {j \in 1 .. Len(a.state.v) : a.state.some /\ a.state.v[j].tag = "Assigned"}}
    \cup (IF a.out.tag = "Assigned" THEN {<<AdvCell(cfg.out, row), a.out>>} ELSE {})

C3_NoRowTargetedTwice == last.called => ~last.again

\* C3 amended: the offset never decreases and equals the start offset plus the
\* number of next calls and successful apply calls; no two successful apply
\* calls target the same row, while a failed apply call leaves the cursor on its
\* row, which the next apply call targets again.
C3_MonotonicOffset ==
    /\ [](/\ offset = start + advances
          /\ LastOk => ~last.okAgain
          /\ \A r \in okRows : r < offset)
    /\ [][offset' >= offset]_vars

C3_Witness ==
    /\ LastOk /\ last.again /\ ~last.okAgain
    /\ offset = start + advances /\ advances = 1 /\ calls = 2

\* C4 as stated: every apply call with a Zero output fails in the same, fatal way.
C4_ZeroOutputAlwaysPanics ==
    (last.called /\ last.args.out.tag = "Zero") =>
        last.result = "Panic" /\ last.panic = "unimplemented"

\* C4 amended: an apply call with a Zero output never succeeds, assigns no
\* output cell, returns no cell and does not advance; it panics at
\* unimplemented!() exactly when every earlier step of the call succeeded, and
\* otherwise ends with the backend error or the index panic of that step.
C4_ZeroOutputFails ==
    (last.called /\ last.args.out.tag = "Zero") =>
        /\ last.result \in {"Err", "Panic"}
        /\ last.cell = NoAssigned
        /\ \A i \in 1 .. Len(last.trace) : last.trace[i].label \notin {"out", "next"}
        /\ (last.result = "Panic" /\ last.panic = "unimplemented")
             <=> last.trace = SubSeq(last.ops, 1, Len(last.ops) - 2)

C4_Witness ==
    /\ last.called /\ last.args.out.tag = "Zero"
    /\ last.result = "Panic" /\ last.panic = "unimplemented"
    /\ Len(last.trace) > 1

\* the same call with every omitted selector given as the field's zero
ZeroFill(T, a) ==
    [a EXCEPT !.q_1 = IF a.q_1.some /\ Len(a.q_1.v) >= T THEN a.q_1
                      ELSE SomeV([i \in 1 .. T |->
                                    IF a.q_1.some /\ i <= Len(a.q_1.v) THEN a.q_1.v[i]
                                    ELSE 0]),
              !.q_m = IF a.q_m.some THEN a.q_m ELSE SomeF(0),
              !.rc = IF a.rc.some THEN a.rc ELSE SomeF(0)]

Omits(T, a) == ~a.q_m.some \/ ~a.rc.some \/ ~a.q_1.some \/ Len(a.q_1.v) < T

GateCols(cfg) == Range(cfg.state) \cup {cfg.input, cfg.out}

\* the witnesses of row r that the identity accepts under the selectors fx
AcceptedRows(cfg, fx, r) ==
    {w \in [GateCols(cfg) -> F] :
        GatePoly(cfg, fx, [c \in AdvIds, rr \in Rows |-> IF c \in GateCols(cfg) THEN w[c] ELSE UNSET], r) = 0}

SameSelectors(cfg, fx1, fx2, r) ==
    \A c \in FixIds : CellValue(fx1[c, r]) = CellValue(fx2[c, r])

\* the row of a successful apply call accepts the witnesses that the row of the
\* same call with explicit zeros, made in the same state, accepts
OmissionIsZero ==
    LET zero == Apply(config, ZeroFill(width, last'.args), 0, advice, fixed, copies, offset)
    IN \/ SameSelectors(config, fixed', zero.fixed, offset)
       \/ AcceptedRows(config, fixed', offset) = AcceptedRows(config, zero.fixed, offset)

ApplySucceeded == calls' = calls + 1 /\ last'.result = "Ok" /\ Omits(width, last'.args)

\* C5 as stated: every apply call that omits a selector accepts the same
\* witnesses for its row as the call with that selector given as zero.
C5_OmittedSelectorIsZero == [][ApplySucceeded => OmissionIsZero]_vars

\* C5 amended: that holds for a call on a row that was not written before; no
\* value written on another row enters. A failed apply call leaves its selector
\* values in the row, and a later call on that row that omits them keeps them.
C5_OmittedSelectorIsZeroOnFreshRow ==
    [][(ApplySucceeded /\ last'.fresh) => OmissionIsZero]_vars

C5_Witness ==
    /\ LastOk /\ last.fresh /\ Omits(width, last.args) /\ last.offset > 0
    /\ \E c \in FixIds : fixed[c, last.offset - 1] \notin {UNSET, 0}
                         /\ fixed[c, last.offset] = UNSET

\* C6: configure takes T+2 advice columns (state, input, out) and 2T+4 fixed
\* columns (q_1, q_5, q_m, q_i, q_o, rc) in that order, enables equality on the
\* T+2 advice columns, registers one identity, and the columns of the config
\* are pairwise distinct.
C6_ConfigureLayout ==
    pc \in {"configured", "ctx", "synthesized", "tampered"} =>
        LET T == width IN
        /\ config.state = [i \in 1 .. T |-> i]
        /\ config.input = T + 1
        /\ config.out = T + 2
        /\ config.q_1 = [i \in 1 .. T |-> i]
        /\ config.q_5 = [i \in 1 .. T |-> T + i]
        /\ config.q_m = 2 * T + 1
        /\ config.q_i = 2 * T + 2
        /\ config.q_o = 2 * T + 3
        /\ config.rc = 2 * T + 4
        /\ Len(adv_cols) = supplied[1] - (T + 2)
        /\ Len(fix_cols) = supplied[2] - (2 * T + 4)
        /\ meta.equality = {<<"instance", 0>>} \cup {<<"advice", c>> : c \in 1 .. (T + 2)}
        /\ meta.gates = 1
        /\ Cardinality(GateCols(config)) = T + 2
        /\ Cardinality(Range(config.q_1) \cup Range(config.q_5)
                       \cup {config.q_m, config.q_i, config.q_o, config.rc}) = 2 * T + 4

C6_Witness ==
    /\ pc = "configured" /\ width = 2
    /\ supplied = <<4, 8>> /\ adv_cols = <<>> /\ fix_cols = <<>>
    /\ config.rc = 8

\* C7: configure with T < 2, or with a supply that is too short, panics inside
\* configure before any equality is enabled on a gate column and before the
\* identity is registered, and no apply call runs afterwards.
C7_ConfigErrorsFatal ==
    (pc # "init" /\ (width < 2 \/ supplied[1] < width + 2 \/ supplied[2] < 2 * width + 4)) =>
        /\ pc = "panicked"
        /\ config = NoConfig
        /\ meta.equality = {<<"instance", 0>>}
        /\ meta.gates = 0
        /\ calls = 0 /\ ~last.called
        /\ RowUnset(advice, fixed, 0)

C7_Witness ==
    /\ pc = "panicked" /\ width = 1 /\ supplied = <<3, 6>>
    /\ adv_cols = <<1, 2, 3>> /\ meta.gates = 0

\* C8: synthesize returns Ok only if the squeeze and constrain_instance both
\* returned Ok, and then the output cell is constrained equal to row 0 of the
\* instance column, so an accepted table has the output equal to the instance.
C8_OutputBoundToInstance ==
    synth.done =>
        /\ start = 0
        /\ synth.result = "Ok" <=> (synth.squeeze = "Ok" /\ synth.constrain = "Ok")
        /\ synth.squeeze = "Ok" <=> LastOk
        /\ synth.result = "Ok" =>
             /\ synth.output = last.cell
             /\ <<AdvCell(synth.output.cell[1], synth.output.cell[2]), InstanceCell>> \in copies
             /\ Table => Adv(synth.output.cell) = instance

C8_Witness ==
    /\ synth.done /\ synth.result = "Ok" /\ Table
    /\ Adv(synth.output.cell) = instance /\ instance # 0

StageVariant(stage) ==
    IF stage = "keygen_vk" THEN "WhileKeygenVk"
    ELSE IF stage = "keygen_pk" THEN "WhileKeygenPk"
    ELSE IF stage = "public_input" THEN "PubInputOutOfField"
    ELSE IF stage = "create_proof" THEN "WhileProve"
    ELSE "WhileVerify"

\* C9: prove returns Err with the variant of the stage that failed, carrying
\* that stage's error, and returns Ok(proof) only after verify_proof succeeded.
C9_ErrorNamesStage ==
    p_stage = "returned" =>
        IF p_failed.stage # ""
        THEN /\ ~p_result.ok
             /\ p_result.variant = StageVariant(p_failed.stage)
             /\ p_result.content = p_failed.error
        ELSE p_result.ok /\ p_verified /\ p_result.content = Base64(p_proof)

IsWrite(op) == op.kind \in {"fixed", "advice", "equal"}
Writes(ops) == {i \in 1 .. Len(ops) : IsWrite(ops[i])}

\* C10 as stated: after an apply call the row is completely written or not
\* written at all, also when the call failed.
C10_RowWrittenAtomically ==
    last.called =>
        \/ \A i \in Writes(last.ops) : i > Len(last.trace)
        \/ \A i \in Writes(last.ops) : i <= Len(last.trace)

\* C10 amended: a successful apply call leaves every provided selector, state
\* entry, q_o and the output written; a failed one leaves the writes it made
\* before the failing step in the row, makes none after it and does not advance.
C10_RowWrittenUpToFailure ==
    last.called =>
        /\ last.result = "Ok" <=> last.trace = last.ops
        /\ last.trace = SubSeq(last.ops, 1, Len(last.trace))
        /\ last.result # "Ok" =>
             /\ Len(last.trace) < Len(last.ops) - 1
             /\ last.cell = NoAssigned
        /\ Untampered =>
             \A i \in 1 .. Len(last.trace) :
                LET op == last.trace[i] IN
                /\ op.kind = "fixed" => fixed[op.col, last.offset] = op.val
                /\ op.kind = "advice" => advice[op.col, last.offset] = op.val
                /\ op.kind = "equal" =>
                     <<AdvCell(op.col, last.offset), AdvCell(op.cell[1], op.cell[2])>> \in copies
        /\ (Untampered /\ last.fresh) =>
             /\ \A c \in FixIds :
                  fixed[c, last.offset] # UNSET =>
                     \E i \in 1 .. Len(last.trace) :
                        last.trace[i].kind = "fixed" /\ last.trace[i].col = c
             /\ \A c \in AdvIds :
                  advice[c, last.offset] # UNSET =>
                     \E i \in 1 .. Len(last.trace) :
                        last.trace[i].kind = "advice" /\ last.trace[i].col = c

C10_Witness ==
    /\ last.called /\ last.result = "Err" /\ last.fresh /\ Untampered
    /\ last.failed.label = "out" /\ last.failed.kind = "advice"
    /\ fixed[config.q_o, last.offset] # UNSET
    /\ advice[config.out, last.offset] = UNSET

\* ------------------------------------------------------------ C11
\* the step of the row-filling algorithm a performed backend call belongs to,
\* read off the column it touched
StepOf(op) ==
    IF op.kind = "next" THEN 7
    ELSE IF op.kind = "fixed"
    THEN IF \E i \in 1 .. Len(config.q_1) : config.q_1[i] = op.col THEN 1
         ELSE IF op.col = config.q_m THEN 2
         ELSE IF op.col = config.rc THEN 4
         ELSE IF op.col = config.q_o THEN 5
         ELSE 0
    ELSE IF op.col = config.out THEN 6
    ELSE IF \E i \in 1 .. Len(config.state) : config.state[i] = op.col THEN 3
    ELSE 0

StepsDone(tr, k) == {i \in 1 .. Len(tr) : StepOf(tr[i]) = k}
Beyond(tr, k) == \E i \in 1 .. Len(tr) : StepOf(tr[i]) > k

\* the calls made by the last apply call follow the seven steps
OrderOfLast ==
    LET tr == last.trace
        a == last.args
    IN /\ \A i \in 1 .. Len(tr) : StepOf(tr[i]) \in 1 .. 7
       /\ \A i, j \in 1 .. Len(tr) : i < j => StepOf(tr[i]) <= StepOf(tr[j])
       /\ \A i \in StepsDone(tr, 1) :
             /\ a.q_1.some
             /\ tr[i].col = config.q_1[i]
             /\ tr[i].val = a.q_1.v[i]
       /\ (Beyond(tr, 1) /\ a.q_1.some) =>
             Cardinality(StepsDone(tr, 1)) = Len(a.q_1.v)
       /\ \A i \in StepsDone(tr, 2) : a.q_m.some /\ tr[i].val = a.q_m.v
       /\ Cardinality(StepsDone(tr, 2)) <= 1
       /\ (Beyond(tr, 2) /\ a.q_m.some) => StepsDone(tr, 2) # {}
       /\ StepsDone(tr, 3) # {} => a.state.some
       /\ (Beyond(tr, 3) /\ a.state.some) =>
             \A n \in 1 .. Len(a.state.v) :
                a.state.v[n].tag # "Zero" =>
                   \E i \in StepsDone(tr, 3) :
                      /\ tr[i].kind = "advice"
                      /\ tr[i].col = config.state[n]
                      /\ tr[i].val = a.state.v[n].value
       /\ \A i \in StepsDone(tr, 4) : a.rc.some /\ tr[i].val = a.rc.v
       /\ Cardinality(StepsDone(tr, 4)) <= 1
       /\ (Beyond(tr, 4) /\ a.rc.some) => StepsDone(tr, 4) # {}
       /\ \A i \in StepsDone(tr, 5) : tr[i].val = a.q_o
       /\ Cardinality(StepsDone(tr, 5)) <= 1
       /\ Beyond(tr, 5) => StepsDone(tr, 5) # {}
       /\ Beyond(tr, 6) =>
             \E i \in StepsDone(tr, 6) :
                tr[i].kind = "advice" /\ tr[i].val = a.out.value
       /\ Cardinality(StepsDone(tr, 7)) <= 1

\* what the end of the last apply call says about the steps it ran
StopOfLast ==
    LET tr == last.trace IN
    /\ last.result = "Ok" <=> StepsDone(tr, 7) # {}
    /\ last.result = "Ok" => StepsDone(tr, 5) # {} /\ StepsDone(tr, 6) # {}
    /\ last.result = "Err" =>
          /\ Len(tr) < Len(last.ops)
          /\ last.ops[Len(tr) + 1] = last.failed
          /\ tr = SubSeq(last.ops, 1, Len(tr))
          /\ last.failed.kind \in {"fixed", "advice", "equal"}

\* an apply call moves the cursor by one exactly when it ran step 7
CursorOfCall ==
    calls' = calls + 1 =>
        /\ offset' = IF StepsDone(last'.trace, 7) # {} THEN offset + 1 ELSE offset
        /\ last'.offset = offset

\* C11: within one apply call the backend calls happen in the order q_1, q_m,
\* state, rc, q_o, output cell, cursor advance, with q_o written whether or not
\* the optional selectors were given; the cursor advances only after the output
\* cell was assigned, and the first backend error ends the call with no later
\* step run and the cursor where it was.
C11_ApplyOrder ==
    /\ [](last.called => OrderOfLast /\ StopOfLast)
    /\ [][CursorOfCall]_vars

C11_Witness ==
    /\ last.called /\ last.result = "Ok"
    /\ last.args.q_1.some /\ Len(last.args.q_1.v) = width
    /\ last.args.q_m.some /\ last.args.rc.some
    /\ last.args.state.some /\ last.args.state.v[1].tag = "Assigned"
    /\ last.args.out.tag = "Assigned"
    /\ \A k \in 1 .. 7 : StepsDone(last.trace, k) # {}
    /\ offset = last.offset + 1

\* ------------------------------------------------------------ C12
\* the columns of the config that apply never names
UntouchedFixed == {config.q_5[i] : i \in 1 .. Len(config.q_5)} \cup {config.q_i}

\* the state columns whose entry in the call's arguments is WrapValue::Zero
ZeroStateCols(a) ==
    IF ~a.state.some THEN {}
    ELSE {config.state[n] : n \in {m \in 1 .. Len(a.state.v) :
                                      m <= Len(config.state) /\ a.state.v[m].tag = "Zero"}}

\* what one apply call, entered with the cursor at offset, leaves alone
FrameOfCall ==
    LET a == last'.args IN
    /\ \A c \in UntouchedFixed : \A r \in Rows : fixed'[c, r] = fixed[c, r]
    /\ \A r \in Rows : advice'[config.input, r] = advice[config.input, r]
    /\ \A c \in ZeroStateCols(a) :
          /\ advice'[c, offset] = advice[c, offset]
          /\ \A e \in copies' \ copies : e[1] # AdvCell(c, offset) /\ e[2] # AdvCell(c, offset)
    /\ \A r \in Rows \ {offset} :
          /\ \A c \in FixIds : fixed'[c, r] = fixed[c, r]
          /\ \A c \in AdvIds : advice'[c, r] = advice[c, r]
    /\ \A e \in copies' \ copies : e[1][3] = offset
    /\ copies \subseteq copies'
    /\ instance' = instance

\* C12: an apply call writes no cell of the q_5 columns, the q_i column or the
\* input column, writes nothing and records no equality for a state entry that
\* is WrapValue::Zero, and writes only in the row at the offset held on entry:
\* every other row is left as it was.
C12_ApplyFrame == [][calls' = calls + 1 => FrameOfCall]_vars

C12_Witness ==
    /\ pc = "ctx" /\ last.called /\ last.result = "Ok"
    /\ last.offset > start
    /\ last.args.state.some
    /\ \E n \in 1 .. Len(last.args.state.v) :
          /\ last.args.state.v[n].tag = "Zero"
          /\ advice[config.state[n], last.offset] = UNSET
    /\ \E n \in 1 .. Len(last.args.state.v) : last.args.state.v[n].tag = "Assigned"
    /\ \E c \in FixIds : fixed[c, start] # UNSET
    /\ \A c \in UntouchedFixed : fixed[c, last.offset] = UNSET
    /\ advice[config.input, last.offset] = UNSET

====
